---- MODULE Spec2Model ----
(***************************************************************************)
(* Model of scripts/cartography.ts: the change-detection helper that       *)
(* scans a folder, hashes its files, folds the hashes into a folder hash   *)
(* and keeps the result in the root .codemap.json.                         *)
(*                                                                         *)
(* Strings are sequences of one-character strings, so that join, split,    *)
(* includes and localeCompare are computed rather than postulated.         *)
(* An MD5 digest is modelled as the collision-free tagging <<"md5", x>>    *)
(* of the hashed text x.                                                   *)
(***************************************************************************)
EXTENDS Integers, Sequences, FiniteSets, TLC

VARIABLES
  files,      \* nodes of the working tree: file (or directory) id -> state
  gitignore,  \* the .gitignore of the working root: Absent, Unreadable or its text
  indexFile,  \* raw state of <cwd>/.codemap.json
  last,       \* the last invocation (or environment step) and its result
  track,      \* history: the update whose arguments are still in force
  procs       \* concurrent invocations (specification SpecConc only)

vars == <<files, gitignore, indexFile, last, track, procs>>

----------------------------------------------------------------------------
(* Bounds *)

\* number of distinct contents a source file can take
MaxContent == 2
\* how deep digests of the index file may nest inside the index itself
MaxNest == 1
\* how many directories below the scanned folder one scan may enter in a row
MaxDepth == 2

----------------------------------------------------------------------------
(* Strings *)

NameA == <<"a", ".", "t", "s">>
NameC == <<"c", ".", "t", "s">>
NameSub == <<"s", "u", "b">>
NameLayout == <<"l", "a", "y", "o", "u", "t", ".", "t", "s">>
NameLoop == <<"l", "o", "o", "p">>
NameLink == <<"l", "i", "n", "k">>
NameIndex == <<".", "c", "o", "d", "e", "m", "a", "p", ".", "j", "s", "o", "n">>
NameGitignore == <<".", "g", "i", "t", "i", "g", "n", "o", "r", "e">>
ExtTs == <<".", "t", "s">>
ExtJson == <<".", "j", "s", "o", "n">>
Dot == <<".">>

\* s.includes(sub)
Includes(s, sub) ==
  \E i \in 1..(Len(s) - Len(sub) + 1) :
    \A k \in 1..Len(sub) : s[i + k - 1] = sub[k]

\* path.join(a, b) for two relative, already normalised paths
join(a, b) == IF a = <<>> THEN b ELSE a \o <<"/">> \o b

\* primary collation order of the characters that occur in paths
Alphabet ==
  <<"_", "-", ":", "!", ".", "*", "/", "|",
    "a", "b", "c", "d", "e", "f", "g", "h", "i", "j", "k", "l", "m",
    "n", "o", "p", "q", "r", "s", "t", "u", "v", "w", "x", "y", "z">>

WeightTable ==
  [ch \in {Alphabet[i] : i \in 1..Len(Alphabet)} |->
     CHOOSE i \in 1..Len(Alphabet) : Alphabet[i] = ch]

Weight(ch) == WeightTable[ch]

\* the characters beyond the alphabet: U+00E9 is the precomposed e with acute,
\* canonically equivalent to e followed by the combining acute U+0301
EAcute == "U+00E9"
CombiningAcute == "U+0301"

\* canonical decomposition of one character
Decomposition(ch) == IF ch = EAcute THEN <<"e", CombiningAcute>> ELSE <<ch>>

\* canonical decomposition (NFD) of a string
RECURSIVE NFD(_)
NFD(s) == IF s = <<>> THEN <<>> ELSE Decomposition(Head(s)) \o NFD(Tail(s))

\* first collation level: the base characters by weight
comparePrimary(a, b) ==
  LET n == IF Len(a) < Len(b) THEN Len(a) ELSE Len(b)
      differ == {i \in 1..n : a[i] # b[i]}
  IN  IF differ = {}
      THEN (IF Len(a) < Len(b) THEN -1 ELSE IF Len(a) > Len(b) THEN 1 ELSE 0)
      ELSE LET i == CHOOSE k \in differ : \A j \in differ : k <= j
           IN  IF Weight(a[i]) < Weight(b[i]) THEN -1 ELSE 1

\* second collation level, for strings with the same base characters: at
\* the first difference the string that carries the accent is the greater
RECURSIVE compareSecondary(_, _)
compareSecondary(a, b) ==
  IF a = <<>> /\ b = <<>> THEN 0
  ELSE IF a = <<>> THEN -1
  ELSE IF b = <<>> THEN 1
  ELSE IF Head(a) = Head(b) THEN compareSecondary(Tail(a), Tail(b))
  ELSE IF Head(a) = CombiningAcute THEN 1
  ELSE -1

\* a.localeCompare(b) on lower-case paths: -1, 0 or 1; canonically
\* equivalent strings compare 0
localeCompare(a, b) ==
  LET isBase(ch) == ch # CombiningAcute
      plain(s) == \A i \in 1..Len(s) : s[i] # EAcute /\ s[i] # CombiningAcute
      primary == comparePrimary(SelectSeq(NFD(a), isBase), SelectSeq(NFD(b), isBase))
  IN  IF plain(a) /\ plain(b) THEN comparePrimary(a, b)
      ELSE IF primary # 0 THEN primary
      ELSE compareSecondary(NFD(a), NFD(b))

\* array.sort((a, b) => a.localeCompare(b)) of an array without duplicates
RECURSIVE sortPaths(_)
sortPaths(S) ==
  IF S = {} THEN <<>>
  ELSE LET m == CHOOSE x \in S : \A y \in S : localeCompare(x, y) <= 0
       IN  <<m>> \o sortPaths(S \ {m})

----------------------------------------------------------------------------
(* Values *)

Undefined == <<"undefined">>
Absent == <<"absent">>
Unreadable == <<"unreadable">>
\* a directory entry that is a symbolic link
Symlink == <<"symlink">>
\* a symbolic link that names a directory of the working tree
LinkTo(dir) == <<"symlink", dir>>
\* a text of n characters that JSON.parse rejects; the empty file is one
NotJson(n) == <<"garbage", n>>
Garbage == NotJson(0)

md5(text) == <<"md5", text>>

SrcText(n) == <<"src", n>>
JsonText(data) == <<"json", data>>

EmptyRoot == [folders |-> <<>>]

----------------------------------------------------------------------------
(* The working tree below process.cwd() *)

FileA == <<NameA>>
FileC == <<NameSub, NameC>>
FileIndex == <<NameIndex>>
FileGitignore == <<NameGitignore>>
\* a file whose name contains the built-in pattern 'out'
FileLayout == <<NameLayout>>
\* directory entries that can be symbolic links to directories
FileLoop == <<NameSub, NameLoop>>
FileLink == <<NameLink>>
\* a file whose name has no dot
FileTs == <<Tail(ExtTs)>>
SourceFiles == {FileA, FileC}

RootDir == <<>>
SubDir == <<NameSub>>
Dirs == {RootDir, SubDir}

Parent(id) == SubSeq(id, 1, Len(id) - 1)
BaseName(id) == id[Len(id)]

RECURSIVE PathOf(_)
PathOf(id) == IF id = <<>> THEN <<>> ELSE join(PathOf(Parent(id)), BaseName(id))

FileState(id) ==
  IF id \in DOMAIN files THEN files[id]
  ELSE IF id = FileIndex THEN indexFile
  ELSE IF id = FileGitignore THEN gitignore
  ELSE Absent

AllFiles ==
  SourceFiles \cup {FileLayout, FileLoop, FileLink, FileTs, FileIndex, FileGitignore}

----------------------------------------------------------------------------
(* Ignore Resolver *)

DEFAULT_IGNORE ==
  << <<"n", "o", "d", "e", "_", "m", "o", "d", "u", "l", "e", "s">>,
     <<".", "g", "i", "t">>,
     <<"d", "i", "s", "t">>,
     <<"b", "u", "i", "l", "d">>,
     <<".", "n", "e", "x", "t">>,
     <<"c", "o", "v", "e", "r", "a", "g", "e">>,
     <<".", "t", "u", "r", "b", "o">>,
     <<"o", "u", "t">>,
     <<"*", ".", "l", "o", "g">>,
     <<".", "D", "S", "_", "S", "t", "o", "r", "e">> >>

\* s.split(sep) for a one-character separator
RECURSIVE split(_, _)
split(s, sep) ==
  IF \A i \in 1..Len(s) : s[i] # sep THEN <<s>>
  ELSE LET i == CHOOSE k \in 1..Len(s) :
                  s[k] = sep /\ \A j \in 1..(k - 1) : s[j] # sep
       IN  <<SubSeq(s, 1, i - 1)>> \o split(SubSeq(s, i + 1, Len(s)), sep)

\* a text file content
Text(chars) == <<"text", chars>>

\* <folder>/.gitignore, a text or Absent; only the working root has one
GitignoreOf(folder) == IF folder = RootDir THEN gitignore ELSE Absent

\* the rule list of the ignore() instance: extra patterns first, then the
\* lines of the folder's .gitignore when the file exists
parseGitignore(folder, extraIgnores) ==
  LET withExtra == IF Len(extraIgnores) > 0 THEN extraIgnores ELSE <<>>
  IN  IF GitignoreOf(folder)[1] = "text"
      THEN withExtra \o split(GitignoreOf(folder)[2], "\n")
      ELSE withExtra

\* existsSync(gitignorePath) holds and readFileSync throws (EACCES): the
\* error leaves parseGitignore, which then returns no instance
parseGitignoreThrows(folder) == GitignoreOf(folder) = Unreadable

RuleNegative(pattern) == pattern # <<>> /\ Head(pattern) = "!"
RuleName(pattern) == IF RuleNegative(pattern) THEN Tail(pattern) ELSE pattern

\* one pass over the rules for one path: the last matching rule decides;
\* a slash-free, wildcard-free pattern matches the last path component
RECURSIVE testOne(_, _, _)
testOne(parts, rules, ignored) ==
  IF rules = <<>> THEN ignored
  ELSE LET rule == Head(rules)
           matched == rule # <<>> /\ RuleName(rule) = parts[Len(parts)]
       IN  testOne(parts, Tail(rules),
                   IF matched THEN ~RuleNegative(rule) ELSE ignored)

\* ignorer.ignores(path): a path below an ignored directory is ignored
RECURSIVE ignoresParts(_, _)
ignoresParts(parts, rules) ==
  IF Len(parts) > 1 /\ ignoresParts(SubSeq(parts, 1, Len(parts) - 1), rules)
  THEN TRUE
  ELSE testOne(parts, rules, FALSE)

ignores(relPath, ignorer) == ignoresParts(split(relPath, "/"), ignorer)

\* DEFAULT_IGNORE.some((pattern) => relPath.includes(pattern))
matchesDefault(relPath) ==
  \E i \in 1..Len(DEFAULT_IGNORE) : Includes(relPath, DEFAULT_IGNORE[i])

\* matchesDefault, tabulated for the relative paths of the working tree
TreePaths ==
  {PathOf(id) : id \in AllFiles \cup Dirs} \cup {BaseName(id) : id \in AllFiles}
DefaultTable == [relPath \in TreePaths |-> matchesDefault(relPath)]

\* a faulty variant of shouldIgnore: the built-in patterns are the first
\* layer of the rules, so that a negation pattern re-includes the path
shouldIgnoreLayered(relPath, ignorer) ==
  testOne(split(relPath, "/"), ignorer,
          matchesDefault(relPath) \/ ignores(relPath, ignorer))

shouldIgnore(relPath, ignorer) ==
  IF (IF relPath \in TreePaths THEN DefaultTable[relPath]
      ELSE matchesDefault(relPath))
  THEN TRUE
  ELSE ignores(relPath, ignorer)

----------------------------------------------------------------------------
(* Tree Scanner *)

\* readdirSync(dir, { withFileTypes: true })
readdirSync(dir) ==
  {[name |-> BaseName(id),
    kind |-> IF FileState(id)[1] = "symlink" THEN "symlink" ELSE "file"] :
      id \in {f \in AllFiles : Parent(f) = dir /\ FileState(f) # Absent}}
  \cup {[name |-> BaseName(d), kind |-> "dir"] :
      d \in {x \in Dirs : x # RootDir /\ Parent(x) = dir}}

\* a faulty variant of extOf: a name without a dot is its own extension
extOfWhole(name) ==
  LET parts == split(name, ".") IN Dot \o parts[Len(parts)]

\* the extension the scanner derives from an entry name
extOf(name) ==
  IF Includes(name, Dot)
  THEN LET parts == split(name, ".") IN Dot \o parts[Len(parts)]
  ELSE <<>>

\* a faulty variant of scan: directories are not entered
scanFlat(dir, base, extensions, ignorer) ==
  {entry.name : entry \in
     {e \in readdirSync(dir) :
        /\ e.kind = "file"
        /\ ~shouldIgnore(e.name, ignorer)
        /\ \E i \in 1..Len(extensions) : extensions[i] = extOf(e.name)}}

RECURSIVE scan(_, _, _, _)
scan(dir, base, extensions, ignorer) ==
  LET visit(entry) ==
        LET relPath == IF base # <<>> THEN join(base, entry.name) ELSE entry.name
        IN  IF shouldIgnore(relPath, ignorer) THEN {}
            ELSE IF entry.kind = "dir"
                 THEN scan(Append(dir, entry.name), relPath, extensions, ignorer)
            ELSE IF /\ entry.kind = "file"
                    /\ \E i \in 1..Len(extensions) : extensions[i] = extOf(entry.name)
                 THEN {relPath}
            ELSE {}
  IN  UNION {visit(entry) : entry \in readdirSync(dir)}

\* readdirSync(dir) throws (EACCES) for a directory that cannot be listed
readdirSyncThrows(dir) == dir \in DOMAIN files /\ files[dir] = Unreadable

\* scan throws when the readdirSync of a directory it enters throws
RECURSIVE scanThrows(_, _, _)
scanThrows(dir, base, ignorer) ==
  \/ readdirSyncThrows(dir)
  \/ \E entry \in readdirSync(dir) :
       LET relPath == IF base # <<>> THEN join(base, entry.name) ELSE entry.name
       IN  /\ entry.kind = "dir"
           /\ ~shouldIgnore(relPath, ignorer)
           /\ scanThrows(Append(dir, entry.name), relPath, ignorer)

\* an error leaves parseGitignore or getFiles, the first two steps of every
\* command
ScanFails(folder, extraIgnores) ==
  \/ parseGitignoreThrows(folder)
  \/ scanThrows(folder, <<>>, parseGitignore(folder, extraIgnores))

getFiles(folder, extensions, ignorer) ==
  sortPaths(scan(folder, <<>>, extensions, ignorer))

----------------------------------------------------------------------------
(* Content Hasher *)

\* the file a path below the working root names
FileAt(path) == CHOOSE id \in AllFiles : PathOf(id) = path

Readable(id) == FileState(id) # Absent /\ FileState(id) # Unreadable

\* the Map of path -> digest; a file whose read throws gets no entry
calculateHashes(folder, fileList) ==
  LET hashed == {i \in 1..Len(fileList) :
                   Readable(FileAt(join(PathOf(folder), fileList[i])))}
  IN  [path \in {fileList[i] : i \in hashed} |->
         md5(FileState(FileAt(join(PathOf(folder), path))))]

\* Array.from(fileHashes.entries()): the <<path, hash>> entries of the Map in
\* insertion order, which is the order of the sorted file list
MapEntries(fileHashes) ==
  LET paths == sortPaths(DOMAIN fileHashes)
  IN  [i \in 1..Len(paths) |-> <<paths[i], fileHashes[paths[i]]>>]

\* entries.sort(([a], [b]) => a.localeCompare(b)): a stable sort, entries
\* that compare 0 keep the order they came in
RECURSIVE sortEntries(_)
sortEntries(entries) ==
  IF entries = <<>> THEN <<>>
  ELSE LET n == Len(entries)
           front == sortEntries(SubSeq(entries, 1, n - 1))
           k == Cardinality({i \in 1..Len(front) :
                               localeCompare(front[i][1], entries[n][1]) <= 0})
       IN  SubSeq(front, 1, k) \o <<entries[n]>> \o SubSeq(front, k + 1, Len(front))

\* the 32 hexadecimal digits of a digest, kept together as one element of
\* the string they are part of
Hex(hash) == <<ToString(hash)>>

\* the text the updates of the hasher add up to: `${path}:${hash}|` for
\* every entry, one after the other
RECURSIVE concat(_)
concat(sortedEntries) ==
  IF sortedEntries = <<>> THEN <<>>
  ELSE Head(sortedEntries)[1] \o <<":">> \o Hex(Head(sortedEntries)[2]) \o <<"|">>
         \o concat(Tail(sortedEntries))

\* a faulty variant of calculateFolderHashEntries: only the paths are fed
calculateFolderHashPaths(entries) ==
  LET sortedEntries == sortEntries(entries)
  IN  md5(<<"feed", concat([i \in 1..Len(sortedEntries) |->
                              <<sortedEntries[i][1], <<>>>>])>>)

\* calculateFolderHash on the entries of the Map: one `${path}:${hash}|`
\* chunk per entry, in sorted order
calculateFolderHashEntries(entries) ==
  md5(<<"feed", concat(sortEntries(entries))>>)

calculateFolderHash(fileHashes) ==
  calculateFolderHashEntries(MapEntries(fileHashes))

----------------------------------------------------------------------------
(* Index Store *)

\* rootData.folders[key] as a list of zero or one entries
Lookup(folders, key) == IF key \in DOMAIN folders THEN <<folders[key]>> ELSE <<>>

\* record.h of a parsed file record; a record written without h has none
DigestOf(record) == IF "h" \in DOMAIN record THEN record.h ELSE Undefined

readRootCodemapData ==
  IF indexFile = Absent THEN EmptyRoot
  ELSE IF indexFile[1] # "json" THEN EmptyRoot
  ELSE IF "folders" \notin DOMAIN indexFile[2] THEN EmptyRoot
  ELSE indexFile[2]

\* JSON that parses but has no folders property
NoFoldersIndex == JsonText([version |-> 1])
\* JSON whose entry for the working root has a digest and no file list; the
\* digest is that of a folder whose one file is no longer there
StaleDigest ==
  calculateFolderHashEntries(<<<<(<<"o", "l", "d">> \o ExtTs), md5(SrcText(1))>>>>)
NoFileListIndex == JsonText([folders |-> [key \in {Dot} |-> [h |-> StaleDigest]]])

\* JSON.stringify drops a property whose value is undefined; an entry that
\* was parsed without a file list is written back without one
Stringify(data) ==
  JsonText([folders |->
    [key \in DOMAIN data.folders |->
       IF "f" \notin DOMAIN data.folders[key] THEN data.folders[key]
       ELSE
       [h |-> data.folders[key].h,
        f |-> [i \in 1..Len(data.folders[key].f) |->
                 IF DigestOf(data.folders[key].f[i]) = Undefined
                 THEN [p |-> data.folders[key].f[i].p]
                 ELSE data.folders[key].f[i]]]]])

\* the content writeFileSync leaves in the index file
writeRootCodemapData(data) == Stringify(data)

\* the sum of cost[x] over the x in S
RECURSIVE SumOver(_, _)
SumOver(S, cost) ==
  IF S = {} THEN 0
  ELSE LET x == CHOOSE y \in S : TRUE IN cost[x] + SumOver(S \ {x}, cost)

\* the number of characters of `${JSON.stringify(data, null, 2)}\n` for
\* ASCII paths and keys and 32-digit hex digests
JsonLen(data) ==
  LET recordLen(record) ==
        Len(record.p) + (IF "h" \in DOMAIN record THEN 89 ELSE 38)
      entryLen(key) ==
        LET f == IF "f" \in DOMAIN data.folders[key] THEN data.folders[key].f
                 ELSE <<>>
        IN  77 + Len(key) +
            (IF Len(f) = 0 THEN 0
             ELSE 7 + SumOver(1..Len(f), [i \in 1..Len(f) |-> recordLen(f[i])])
                    + (Len(f) - 1))
  IN  IF DOMAIN data.folders = {} THEN 20
      ELSE 23 + SumOver(DOMAIN data.folders,
                        [key \in DOMAIN data.folders |-> entryLen(key)])
              + (Cardinality(DOMAIN data.folders) - 1)

\* the size of the index file
TextLen(content) ==
  IF content = Absent THEN 0
  ELSE IF content[1] = "json" THEN JsonLen(content[2])
  ELSE content[2]

----------------------------------------------------------------------------
(* Diff Engine *)

\* previous.f.map(...) throws a TypeError when the entry has no f
diffFilesThrows(previous) == previous # <<>> /\ "f" \notin DOMAIN previous[1]

\* a faulty variant of diffFiles: the loop over the old paths is left out
diffFilesCurrent(currentHashes, previous) ==
  IF previous = <<>> THEN sortPaths(DOMAIN currentHashes)
  ELSE LET prevFiles == previous[1].f
           oldPaths == {prevFiles[i].p : i \in 1..Len(prevFiles)}
           oldHash(path) ==
             DigestOf(prevFiles[CHOOSE i \in 1..Len(prevFiles) : prevFiles[i].p = path])
       IN  sortPaths({path \in DOMAIN currentHashes :
                        path \notin oldPaths \/ oldHash(path) # currentHashes[path]})

diffFiles(currentHashes, previous) ==
  IF previous = <<>> THEN sortPaths(DOMAIN currentHashes)
  ELSE LET prevFiles == previous[1].f
           oldPaths == {prevFiles[i].p : i \in 1..Len(prevFiles)}
           oldHash(path) ==
             DigestOf(prevFiles[CHOOSE i \in 1..Len(prevFiles) :
               /\ prevFiles[i].p = path
               /\ \A j \in (i + 1)..Len(prevFiles) : prevFiles[j].p # path])
           changedNow == {path \in DOMAIN currentHashes :
                            path \notin oldPaths \/ oldHash(path) # currentHashes[path]}
           removed == {path \in oldPaths : path \notin DOMAIN currentHashes}
       IN  sortPaths(changedNow \cup removed)

----------------------------------------------------------------------------
(* Update Protocol *)

\* relative(rootPath, folder) || '.'
folderKeyOf(folder) == IF PathOf(folder) = <<>> THEN Dot ELSE PathOf(folder)

\* a faulty variant of isClean: the stored digest is never taken to match
isCleanNever(existing, folderHash) == FALSE

\* a faulty variant of isClean: a folder without an entry is taken to be clean
isCleanOrAbsent(existing, folderHash) ==
  existing = <<>> \/ existing[1].h = folderHash

\* existing?.h === folderHash
isClean(existing, folderHash) == existing # <<>> /\ existing[1].h = folderHash

\* a faulty variant of setFolder: the document is rebuilt around the one committed folder
setFolderAlone(rootData, folderKey, data) ==
  [folders |-> [key \in {folderKey} |-> data]]

\* rootData.folders[folderKey] = data
setFolder(rootData, folderKey, data) ==
  [folders |->
     [key \in DOMAIN rootData.folders \cup {folderKey} |->
        IF key = folderKey THEN data ELSE rootData.folders[key]]]

\* { h: folderHash, f: files.map((p) => ({ p, h: fileHashes.get(p)! })) }
newEntry(fileList, fileHashes, folderHash) ==
  [h |-> folderHash,
   f |-> [i \in 1..Len(fileList) |->
            [p |-> fileList[i],
             h |-> IF fileList[i] \in DOMAIN fileHashes
                   THEN fileHashes[fileList[i]]
                   ELSE Undefined]]]

\* updateCodemap: the result it returns and the contents it writes
updateCodemap(folder, extensions, extraIgnores) ==
  LET ignorer == parseGitignore(folder, extraIgnores)
      fileList == getFiles(folder, extensions, ignorer)
      fileHashes == calculateHashes(folder, fileList)
      folderHash == calculateFolderHash(fileHashes)
      rootData == readRootCodemapData
      folderKey == folderKeyOf(folder)
      existing == Lookup(rootData.folders, folderKey)
  IN  IF ScanFails(folder, extraIgnores)
      THEN [updated |-> FALSE, fileCount |-> 0,
            changedFiles |-> <<>>, writes |-> <<>>, threw |-> TRUE]
      ELSE IF isClean(existing, folderHash)
      THEN [updated |-> FALSE, fileCount |-> Len(fileList),
            changedFiles |-> <<>>, writes |-> <<>>, threw |-> FALSE]
      ELSE IF diffFilesThrows(existing)
      THEN [updated |-> FALSE, fileCount |-> Len(fileList),
            changedFiles |-> <<>>, writes |-> <<>>, threw |-> TRUE]
      ELSE LET data == newEntry(fileList, fileHashes, folderHash)
               newRoot == setFolder(rootData, folderKey, data)
           IN  [updated |-> TRUE, fileCount |-> Len(fileList),
                changedFiles |-> diffFiles(fileHashes, existing),
                writes |-> <<writeRootCodemapData(newRoot)>>, threw |-> FALSE]

\* a faulty variant of getChanges: changes commits what it computed, as update does
getChangesCommitting(folder, extensions, extraIgnores) ==
  LET committed == updateCodemap(folder, extensions, extraIgnores)
  IN  [fileCount |-> committed.fileCount,
       folderHash |-> calculateFolderHash(calculateHashes(folder,
                        getFiles(folder, extensions,
                                 parseGitignore(folder, extraIgnores)))),
       changedFiles |-> committed.changedFiles,
       writes |-> committed.writes, threw |-> committed.threw]

\* getChanges: the result it returns and the contents it writes (none)
getChanges(folder, extensions, extraIgnores) ==
  LET ignorer == parseGitignore(folder, extraIgnores)
      fileList == getFiles(folder, extensions, ignorer)
      fileHashes == calculateHashes(folder, fileList)
      folderHash == calculateFolderHash(fileHashes)
      rootData == readRootCodemapData
      folderKey == folderKeyOf(folder)
      existing == Lookup(rootData.folders, folderKey)
  IN  IF ScanFails(folder, extraIgnores)
      THEN [fileCount |-> 0, folderHash |-> Undefined,
            changedFiles |-> <<>>, writes |-> <<>>, threw |-> TRUE]
      ELSE IF diffFilesThrows(existing)
      THEN [fileCount |-> Len(fileList), folderHash |-> folderHash,
            changedFiles |-> <<>>, writes |-> <<>>, threw |-> TRUE]
      ELSE [fileCount |-> Len(fileList), folderHash |-> folderHash,
            changedFiles |-> diffFiles(fileHashes, existing), writes |-> <<>>,
            threw |-> FALSE]

----------------------------------------------------------------------------
(* What one invocation computes before it looks at the index *)

FreshFiles(folder, extensions, extraIgnores) ==
  getFiles(folder, extensions, parseGitignore(folder, extraIgnores))

FreshHashes(folder, extensions, extraIgnores) ==
  calculateHashes(folder, FreshFiles(folder, extensions, extraIgnores))

FreshHash(folder, extensions, extraIgnores) ==
  calculateFolderHash(FreshHashes(folder, extensions, extraIgnores))

\* the fresh (path, digest) records, in sorted order
FreshRecords(folder, extensions, extraIgnores) ==
  LET hashes == FreshHashes(folder, extensions, extraIgnores)
      paths == sortPaths(DOMAIN hashes)
  IN  [i \in 1..Len(paths) |-> [p |-> paths[i], h |-> hashes[paths[i]]]]

StoredFolders == readRootCodemapData.folders
StoredEntry(folder) == Lookup(StoredFolders, folderKeyOf(folder))

----------------------------------------------------------------------------
(* Invocations, one after the other *)

Folders == Dirs
ExtLists == {<<ExtTs>>}
IgnoreLists == {<<>>, <<NameSub>>}
Contents == {SrcText(n) : n \in 1..MaxContent}

NoTrack == [phase |-> "none", folder |-> RootDir, extensions |-> <<>>,
            extraIgnores |-> <<>>, path |-> <<>>, since |-> "none",
            readable |-> FALSE]

EnvLast == [op |-> "env", pre |-> "none", prePath |-> <<>>, since |-> "none",
            preReadable |-> FALSE,
            updated |-> FALSE, changedFiles |-> <<>>, wrote |-> FALSE,
            folder |-> RootDir, extensions |-> <<>>, extraIgnores |-> <<>>,
            fileCount |-> 0, hasChanges |-> FALSE,
            folderHash |-> Undefined, fileList |-> <<>>, fileHashes |-> <<>>,
            exit |-> 0, usage |-> FALSE, folderArg |-> <<>>,
            writeFailed |-> FALSE]

\* how many index digests are nested inside an index file content
RECURSIVE NestDepth(_)
NestDepth(content) ==
  IF content[1] # "json" THEN 0
  ELSE IF "folders" \notin DOMAIN content[2] THEN 0
  ELSE LET folders == content[2].folders
           nested(entry) ==
             IF "f" \notin DOMAIN entry THEN {}
             ELSE
             {DigestOf(entry.f[i])[2] :
                i \in {j \in 1..Len(entry.f) :
                         /\ DigestOf(entry.f[j]) # Undefined
                         /\ DigestOf(entry.f[j])[2][1] \in {"json", "garbage"}}}
           inner == UNION {nested(folders[key]) : key \in DOMAIN folders}
           depths == {NestDepth(text) : text \in inner}
       IN  IF depths = {} THEN 0
           ELSE 1 + CHOOSE d \in depths : \A e \in depths : e <= d

\* writeFileSync replaces the content of the index file
ApplyWrites(writes) == IF writes = <<>> THEN indexFile ELSE writes[Len(writes)]

\* what the arguments of this invocation were last used for
PreOf(folder, extensions, extraIgnores) ==
  IF /\ track.folder = folder
     /\ track.extensions = extensions
     /\ track.extraIgnores = extraIgnores
  THEN track
  ELSE NoTrack

\* a faulty variant of writeThrows: the error of writeFileSync is swallowed
\* and updateCodemap returns what it computed
writeSwallowed(result) == [result EXCEPT !.writes = <<>>]

\* updateCodemap when writeFileSync throws (the index file cannot be opened
\* for writing): the error leaves updateCodemap before its return statement
writeThrows(result) ==
  IF result.writes = <<>> THEN result
  ELSE [result EXCEPT !.updated = FALSE, !.changedFiles = <<>>,
                      !.writes = <<>>, !.threw = TRUE]

\* main, case 'update', for a folder argument that resolves to folder; an
\* error thrown by updateCodemap reaches main().catch, which prints it and
\* exits with status 1
UpdateStep(folderArg, folder, extensions, extraIgnores, writable, result, pre) ==
  /\ NestDepth(ApplyWrites(result.writes)) <= MaxNest
  /\ indexFile' = ApplyWrites(result.writes)
  /\ last' = [EnvLast EXCEPT
                !.op = "update", !.folderArg = folderArg, !.pre = pre.phase, !.prePath = pre.path,
                !.since = pre.since, !.preReadable = pre.readable,
                !.updated = result.updated,
                !.changedFiles = result.changedFiles,
                !.wrote = (result.writes # <<>>),
                !.folder = folder, !.extensions = extensions,
                !.extraIgnores = extraIgnores,
                !.fileCount = result.fileCount,
                !.writeFailed = ~writable,
                !.exit = IF result.threw THEN 1 ELSE 0]
  /\ track' = IF result.threw THEN NoTrack
              ELSE [phase |-> "synced", folder |-> folder,
                    extensions |-> extensions, extraIgnores |-> extraIgnores,
                    path |-> <<>>,
                    since |-> IF pre.phase = "modified" THEN "modified"
                              ELSE "none",
                    readable |-> FALSE]
  /\ UNCHANGED <<files, gitignore, procs>>

UpdateAs(folderArg, folder, extensions, extraIgnores) ==
  UpdateStep(folderArg, folder, extensions, extraIgnores, TRUE,
             updateCodemap(folder, extensions, extraIgnores),
             PreOf(folder, extensions, extraIgnores))

\* main, case 'changes', for a folder argument that resolves to folder
ChangesAs(folderArg, folder, extensions, extraIgnores) ==
  LET result == getChanges(folder, extensions, extraIgnores)
      pre == PreOf(folder, extensions, extraIgnores)
  IN  /\ NestDepth(ApplyWrites(result.writes)) <= MaxNest
      /\ indexFile' = ApplyWrites(result.writes)
      /\ last' = [EnvLast EXCEPT
                    !.op = "changes", !.folderArg = folderArg, !.pre = pre.phase, !.prePath = pre.path,
                    !.since = pre.since, !.preReadable = pre.readable,
                    !.changedFiles = result.changedFiles,
                    !.wrote = (result.writes # <<>>),
                    !.folder = folder, !.extensions = extensions,
                    !.extraIgnores = extraIgnores,
                    !.fileCount = result.fileCount,
                    !.folderHash = result.folderHash,
                    !.hasChanges = (Len(result.changedFiles) > 0),
                    !.exit = IF result.threw THEN 1 ELSE 0]
      /\ UNCHANGED <<files, gitignore, track, procs>>

\* main, case 'scan', for a folder argument that resolves to folder
ScanAs(folderArg, folder, extensions, extraIgnores) ==
  LET ignorer == parseGitignore(folder, extraIgnores)
      fileList == getFiles(folder, extensions, ignorer)
      failed == ScanFails(folder, extraIgnores)
  IN  /\ last' = [EnvLast EXCEPT
                    !.op = "scan", !.folderArg = folderArg, !.folder = folder,
                    !.extensions = extensions, !.extraIgnores = extraIgnores,
                    !.fileList = IF failed THEN <<>> ELSE fileList,
                    !.exit = IF failed THEN 1 ELSE 0]
      /\ UNCHANGED <<files, gitignore, indexFile, track, procs>>

\* main, case 'hash', for a folder argument that resolves to folder
HashAs(folderArg, folder, extensions, extraIgnores) ==
  LET ignorer == parseGitignore(folder, extraIgnores)
      fileList == getFiles(folder, extensions, ignorer)
      fileHashes == calculateHashes(folder, fileList)
      folderHash == calculateFolderHash(fileHashes)
      failed == ScanFails(folder, extraIgnores)
  IN  /\ last' = [EnvLast EXCEPT
                    !.op = "hash", !.folderArg = folderArg, !.folder = folder,
                    !.extensions = extensions, !.extraIgnores = extraIgnores,
                    !.folderHash = IF failed THEN Undefined ELSE folderHash,
                    !.fileHashes = IF failed THEN <<>> ELSE fileHashes,
                    !.exit = IF failed THEN 1 ELSE 0]
      /\ UNCHANGED <<files, gitignore, indexFile, track, procs>>

\* the folder argument that names folder, relative to process.cwd()
ArgOf(folder) == folderKeyOf(folder)

\* cartography update <folder> --extensions=... --exclude=...
Update(folder, extensions, extraIgnores) ==
  UpdateAs(ArgOf(folder), folder, extensions, extraIgnores)

\* cartography changes <folder> --extensions=... --exclude=...
Changes(folder, extensions, extraIgnores) ==
  ChangesAs(ArgOf(folder), folder, extensions, extraIgnores)

\* cartography scan <folder> --extensions=... --exclude=...
Scan(folder, extensions, extraIgnores) ==
  ScanAs(ArgOf(folder), folder, extensions, extraIgnores)

\* cartography hash <folder> --extensions=... --exclude=...
Hash(folder, extensions, extraIgnores) ==
  HashAs(ArgOf(folder), folder, extensions, extraIgnores)

----------------------------------------------------------------------------
(* The environment: edits of the working tree between invocations *)

\* the paths the stored entry of the tracked folder lists
TrackedPaths ==
  LET existing == Lookup(readRootCodemapData.folders, folderKeyOf(track.folder))
  IN  IF existing = <<>> THEN {}
      ELSE IF "f" \notin DOMAIN existing[1] THEN {}
      ELSE {existing[1].f[i].p : i \in 1..Len(existing[1].f)}

\* the path of file id relative to the tracked folder, or <<>> if not below it
RelToTracked(id) ==
  IF track.folder = RootDir THEN PathOf(id)
  ELSE IF Len(id) > Len(track.folder) /\ SubSeq(id, 1, Len(track.folder)) = track.folder
       THEN PathOf(SubSeq(id, Len(track.folder) + 1, Len(id)))
  ELSE <<>>

\* the history after one edit of file id: a single edit of a tracked file right
\* after an update is remembered, anything else ends the tracking
TrackAfter(id, phase) ==
  IF track.phase = "synced" /\ RelToTracked(id) \in TrackedPaths
  THEN [track EXCEPT !.phase = phase, !.path = RelToTracked(id),
                     !.since = "none", !.readable = (files[id] \in Contents)]
  ELSE NoTrack

\* the history after the creation of file id: a single creation below the
\* folder of the update that came right before is remembered
TrackCreated(id) ==
  IF track.phase = "synced" /\ RelToTracked(id) # <<>>
  THEN [track EXCEPT !.phase = "created", !.path = RelToTracked(id),
                     !.since = "none", !.readable = TRUE]
  ELSE NoTrack

CreateFile(id, text) ==
  /\ files[id] = Absent
  /\ files' = [files EXCEPT ![id] = text]
  /\ track' = TrackCreated(id)
  /\ last' = EnvLast
  /\ UNCHANGED <<gitignore, indexFile, procs>>

ModifyFile(id, text) ==
  /\ files[id] \in Contents
  /\ files[id] # text
  /\ files' = [files EXCEPT ![id] = text]
  /\ track' = TrackAfter(id, "modified")
  /\ last' = EnvLast
  /\ UNCHANGED <<gitignore, indexFile, procs>>

DeleteFile(id) ==
  /\ files[id] # Absent
  /\ files' = [files EXCEPT ![id] = Absent]
  /\ track' = TrackAfter(id, "deleted")
  /\ last' = EnvLast
  /\ UNCHANGED <<gitignore, indexFile, procs>>

\* chmod: the file stays listed by readdir but its read throws
RevokeRead(id) ==
  /\ files[id] \in Contents
  /\ files' = [files EXCEPT ![id] = Unreadable]
  /\ track' = NoTrack
  /\ last' = EnvLast
  /\ UNCHANGED <<gitignore, indexFile, procs>>

GrantRead(id, text) ==
  /\ files[id] = Unreadable
  /\ files' = [files EXCEPT ![id] = text]
  /\ track' = NoTrack
  /\ last' = EnvLast
  /\ UNCHANGED <<gitignore, indexFile, procs>>

\* the index file is removed, or replaced by text that is not JSON
DamageIndex(state) ==
  /\ indexFile # state
  /\ indexFile' = state
  /\ track' = NoTrack
  /\ last' = EnvLast
  /\ UNCHANGED <<files, gitignore, procs>>

----------------------------------------------------------------------------
(* Specification of sequential invocations *)

NoProcs == <<>>

Init ==
  /\ files = [id \in SourceFiles |-> Absent]
  /\ gitignore = Absent
  /\ indexFile = Absent
  /\ last = EnvLast
  /\ track = NoTrack
  /\ procs = NoProcs

Next ==
  \/ \E folder \in Folders, extensions \in ExtLists, extraIgnores \in IgnoreLists :
       Update(folder, extensions, extraIgnores)
  \/ \E folder \in Folders, extensions \in ExtLists, extraIgnores \in IgnoreLists :
       Changes(folder, extensions, extraIgnores)
  \/ \E id \in SourceFiles, text \in Contents : CreateFile(id, text)
  \/ \E id \in SourceFiles, text \in Contents : ModifyFile(id, text)
  \/ \E id \in SourceFiles : DeleteFile(id)
  \/ \E id \in SourceFiles : RevokeRead(id)
  \/ \E id \in SourceFiles, text \in Contents : GrantRead(id, text)
  \/ \E state \in {Absent, Garbage} : DamageIndex(state)

Spec == Init /\ [][Next]_vars

----------------------------------------------------------------------------
(* Specification in which the index file itself has a tracked extension *)

JsonExtLists == {<<ExtTs, ExtJson>>}

InitJson ==
  /\ files = [id \in SourceFiles |-> Absent]
  /\ gitignore = Absent
  /\ indexFile = Absent
  /\ last = EnvLast
  /\ track = NoTrack
  /\ procs = NoProcs

NextJson ==
  \/ \E folder \in Folders, extensions \in JsonExtLists :
       Update(folder, extensions, <<>>)
  \/ \E folder \in Folders, extensions \in JsonExtLists :
       Changes(folder, extensions, <<>>)
  \/ \E folder \in Folders, extensions \in JsonExtLists :
       Scan(folder, extensions, <<>>)
  \/ \E folder \in Folders, extensions \in JsonExtLists :
       Hash(folder, extensions, <<>>)
  \/ \E text \in Contents : CreateFile(FileA, text)
  \/ \E text \in Contents : ModifyFile(FileA, text)
  \/ DeleteFile(FileA)

SpecJson == InitJson /\ [][NextJson]_vars

----------------------------------------------------------------------------
(* Specification of whole command lines: every command verb, folder         *)
(* arguments that are empty or name no folder, and edits of .gitignore      *)

NameNoSuch == <<"g", "o", "n", "e">>
Commands == {"scan", "hash", "update", "changes", "help"}
FolderArgs == {<<>>, Dot, NameSub, NameNoSuch}
GitignoreTexts == {Text(NameSub \o <<"\n">>), Text(NameC \o <<"\n">>)}

\* path.resolve(folderArg) as a directory below process.cwd()
resolve(folderArg) == IF folderArg = Dot THEN RootDir ELSE <<folderArg>>

\* the default case of main: the usage line on stderr and process.exit(1)
UsageExit(command, folderArg) ==
  /\ last' = [EnvLast EXCEPT !.op = command, !.folderArg = folderArg,
                             !.usage = TRUE, !.exit = 1]
  /\ UNCHANGED <<files, gitignore, indexFile, track, procs>>

\* readdirSync throws for a folder that does not exist; main().catch prints
\* the error and calls process.exit(1)
CatchExit(command, folderArg, folder) ==
  /\ last' = [EnvLast EXCEPT !.op = command, !.folderArg = folderArg,
                             !.folder = folder, !.exit = 1]
  /\ UNCHANGED <<files, gitignore, indexFile, track, procs>>

\* cartography <command> [folderArg] --extensions=... --exclude=...
Main(command, folderArg, extensions, extraIgnores) ==
  LET folder == IF folderArg # <<>> THEN resolve(folderArg) ELSE RootDir
  IN  IF command \notin {"scan", "hash", "update", "changes"}
      THEN UsageExit(command, folderArg)
      ELSE IF folder \notin Dirs
      THEN CatchExit(command, folderArg, folder)
      ELSE IF command = "scan"
      THEN ScanAs(folderArg, folder, extensions, extraIgnores)
      ELSE IF command = "hash"
      THEN HashAs(folderArg, folder, extensions, extraIgnores)
      ELSE IF command = "update"
      THEN UpdateAs(folderArg, folder, extensions, extraIgnores)
      ELSE ChangesAs(folderArg, folder, extensions, extraIgnores)

\* .gitignore of the working root is written
WriteGitignore(text) ==
  /\ gitignore # text
  /\ gitignore' = text
  /\ track' = NoTrack
  /\ last' = EnvLast
  /\ UNCHANGED <<files, indexFile, procs>>

\* .gitignore of the working root is removed
RemoveGitignore ==
  /\ gitignore # Absent
  /\ gitignore' = Absent
  /\ track' = NoTrack
  /\ last' = EnvLast
  /\ UNCHANGED <<files, indexFile, procs>>

InitCmd ==
  /\ files = [id \in SourceFiles |-> Absent]
  /\ gitignore = Absent
  /\ indexFile = Absent
  /\ last = EnvLast
  /\ track = NoTrack
  /\ procs = NoProcs

NextCmd ==
  \/ \E command \in Commands, folderArg \in FolderArgs,
        extensions \in ExtLists, extraIgnores \in IgnoreLists :
       Main(command, folderArg, extensions, extraIgnores)
  \/ CreateFile(FileC, SrcText(1))
  \/ DeleteFile(FileC)
  \/ RevokeRead(FileC)
  \/ \E text \in GitignoreTexts : WriteGitignore(text)
  \/ RemoveGitignore

SpecCmd == InitCmd /\ [][NextCmd]_vars

----------------------------------------------------------------------------
(* Specification of the command line: options in the form --option=value     *)
(* and in the form --option value                                            *)

OptExtensions == <<"-", "-", "e", "x", "t", "e", "n", "s", "i", "o", "n", "s">>
OptExclude == <<"-", "-", "e", "x", "c", "l", "u", "d", "e">>
ExtJs == <<".", "j", "s">>

\* ['.ts', '.tsx', '.js', '.jsx', '.py', '.go', '.rs']
DefaultExtensions ==
  <<ExtTs, ExtTs \o <<"x">>, ExtJs, ExtJs \o <<"x">>,
    <<".", "p", "y">>, <<".", "g", "o">>, <<".", "r", "s">>>>

\* s.startsWith(prefix)
startsWith(s, prefix) ==
  Len(s) >= Len(prefix) /\ SubSeq(s, 1, Len(prefix)) = prefix

\* process.argv.find((a) => a.startsWith(prefix)), as a list of zero or one
find(argv, prefix) ==
  LET hits == {i \in 1..Len(argv) : startsWith(argv[i], prefix)}
  IN  IF hits = {} THEN <<>>
      ELSE <<argv[CHOOSE i \in hits : \A j \in hits : i <= j]>>

\* arg.split('=')[1], as a list of zero or one: undefined when arg has no '='
valueOf(arg) ==
  LET parts == split(arg, "=") IN IF Len(parts) > 1 THEN <<parts[2]>> ELSE <<>>

\* e.trim()
RECURSIVE trim(_)
trim(e) ==
  IF e # <<>> /\ Head(e) = " " THEN trim(Tail(e))
  ELSE IF e # <<>> /\ e[Len(e)] = " " THEN trim(SubSeq(e, 1, Len(e) - 1))
  ELSE e

\* main, lines 244-260: the extensions of the invocation
parseExtensions(argv) ==
  LET extArg == find(argv, OptExtensions)
      extList == IF extArg = <<>> THEN <<>> ELSE valueOf(extArg[1])
  IN  IF extList # <<>> /\ extList[1] # <<>>
      THEN LET parts == split(extList[1], ",")
               withDot(e) == Dot \o (IF trim(e) # <<>> /\ Head(trim(e)) = "."
                                     THEN Tail(trim(e)) ELSE trim(e))
           IN  [i \in 1..Len(parts) |-> withDot(parts[i])]
      ELSE DefaultExtensions

\* main, lines 262-270: the extra ignore patterns of the invocation
parseExcludes(argv) ==
  LET excludeArg == find(argv, OptExclude)
      excludeList == IF excludeArg = <<>> THEN <<>> ELSE valueOf(excludeArg[1])
  IN  IF excludeList # <<>> /\ excludeList[1] # <<>>
      THEN LET parts == split(excludeList[1], ",")
               trimmed == [i \in 1..Len(parts) |-> trim(parts[i])]
           IN  SelectSeq(trimmed, LAMBDA e : e # <<>>)
      ELSE <<>>

\* the option lists of the invocations: none, and each option in both forms
OptionLists ==
  {<<>>,
   <<OptExtensions \o <<"=">> \o Tail(ExtJs)>>,
   <<OptExtensions, Tail(ExtJs)>>,
   <<OptExclude \o <<"=">> \o NameSub>>,
   <<OptExclude, NameSub>>,
   <<OptExtensions \o <<"=">> \o Tail(ExtTs), OptExclude \o <<"=">> \o NameSub>>,
   <<OptExtensions, Tail(ExtTs), OptExclude, NameSub>>}

\* process.argv from index 2 on: cartography <command> <folderArg> <options>
Argv(command, folderArg, options) ==
  [command |-> command, folderArg |-> folderArg, options |-> options]

\* the process is started with an argument vector
Exec(argv) ==
  /\ procs # argv
  /\ procs' = argv
  /\ last' = EnvLast
  /\ UNCHANGED <<files, gitignore, indexFile, track>>

\* main, from the parsing of the options to the end of the command
MainArgv ==
  Main(procs.command, procs.folderArg,
       parseExtensions(<<procs.folderArg>> \o procs.options),
       parseExcludes(<<procs.folderArg>> \o procs.options))

ArgvFiles == SourceFiles \cup {FileTs}

InitArgv ==
  /\ files \in [ArgvFiles -> {Absent, SrcText(1)}]
  /\ gitignore = Absent
  /\ indexFile = Absent
  /\ last = EnvLast
  /\ track = NoTrack
  /\ procs = Argv("scan", Dot, <<>>)

NextArgv ==
  \/ \E command \in {"scan", "update"}, options \in OptionLists :
       Exec(Argv(command, Dot, options))
  \/ MainArgv
  \/ \E id \in ArgvFiles : CreateFile(id, SrcText(1))
  \/ \E id \in ArgvFiles : DeleteFile(id)

SpecArgv == InitArgv /\ [][NextArgv]_vars

----------------------------------------------------------------------------
(* Specification of invocations that run at the same time, as separate      *)
(* processes on one working tree.  An invocation scans and hashes, then     *)
(* reads the index, then (update, dirty) opens the index file for writing,  *)
(* which truncates it, and then writes the new content.                     *)

NumProcs == 2
ProcIds == 1..NumProcs
ConcExtensions == <<ExtTs>>
ConcIgnores == <<>>

IdleProc == [pc |-> "idle", op |-> "none", folder |-> RootDir,
             rootData |-> EmptyRoot, partial |-> FALSE, updated |-> FALSE]

ConcFrame == UNCHANGED <<files, gitignore, last, track>>

\* main dispatches the command; the folder is scanned and hashed
ConcStart(p, op, folder) ==
  /\ procs[p].pc = "idle"
  /\ procs' = [procs EXCEPT ![p] =
                 [@ EXCEPT !.pc = "hashed", !.op = op, !.folder = folder]]
  /\ UNCHANGED indexFile
  /\ ConcFrame

\* readRootCodemapData and the comparison with the stored digest
ConcRead(p) ==
  /\ procs[p].pc = "hashed"
  /\ LET rootData == readRootCodemapData
         existing == Lookup(rootData.folders, folderKeyOf(procs[p].folder))
         clean == isClean(existing,
                    FreshHash(procs[p].folder, ConcExtensions, ConcIgnores))
     IN  procs' = [procs EXCEPT ![p] =
                     [@ EXCEPT !.rootData = rootData,
                               !.partial = (indexFile[1] = "garbage"),
                               !.pc = IF procs[p].op = "changes" \/ clean
                                      THEN "done" ELSE "commit"]]
  /\ UNCHANGED indexFile
  /\ ConcFrame

\* writeFileSync opens the index file with truncation: it is empty for a while
ConcOpen(p) ==
  /\ procs[p].pc = "commit"
  /\ indexFile' = Garbage
  /\ procs' = [procs EXCEPT ![p] = [@ EXCEPT !.pc = "writing"]]
  /\ ConcFrame

\* the content this process writes: its own snapshot with its folder replaced
ConcContent(p) ==
  writeRootCodemapData(
    setFolder(procs[p].rootData, folderKeyOf(procs[p].folder),
      newEntry(FreshFiles(procs[p].folder, ConcExtensions, ConcIgnores),
               FreshHashes(procs[p].folder, ConcExtensions, ConcIgnores),
               FreshHash(procs[p].folder, ConcExtensions, ConcIgnores))))

\* writeFileSync writes the content from offset 0 and returns.  Over a longer
\* text that another writer put there meanwhile, the tail of that text stays:
\* a tail of one character is the final newline and harmless, a longer one
\* makes the file unparsable
ConcWrite(p) ==
  /\ procs[p].pc = "writing"
  /\ indexFile' = IF TextLen(indexFile) <= TextLen(ConcContent(p)) + 1
                  THEN ConcContent(p)
                  ELSE NotJson(TextLen(indexFile))
  /\ procs' = [procs EXCEPT ![p] = [@ EXCEPT !.pc = "done", !.updated = TRUE]]
  /\ ConcFrame

\* the process is killed between the truncation and the write
ConcKill(p) ==
  /\ procs[p].pc = "writing"
  /\ procs' = [procs EXCEPT ![p] = [@ EXCEPT !.pc = "killed"]]
  /\ UNCHANGED indexFile
  /\ ConcFrame

InitConc ==
  /\ files \in [SourceFiles -> {Absent, SrcText(1)}]
  /\ gitignore = Absent
  /\ indexFile = Absent
  /\ last = EnvLast
  /\ track = NoTrack
  /\ procs = [p \in ProcIds |-> IdleProc]

NextConc ==
  \/ \E p \in ProcIds, op \in {"update", "changes"}, folder \in Folders :
       ConcStart(p, op, folder)
  \/ \E p \in ProcIds : ConcRead(p)
  \/ \E p \in ProcIds : ConcOpen(p)
  \/ \E p \in ProcIds : ConcWrite(p)
  \/ \E p \in ProcIds : ConcKill(p)

SpecConc == InitConc /\ [][NextConc]_vars

----------------------------------------------------------------------------
(* Specification of calculateFolderHash alone: the Map it is given holds     *)
(* any entries, inserted in any order                                        *)

\* the paths a Map can hold: an ordinary one, and two spellings of one
\* accented name that are canonically equivalent
HashPaths ==
  {NameA, <<EAcute>> \o ExtTs, <<"e", CombiningAcute>> \o ExtTs}
HashDigests == {md5(c) : c \in Contents}

\* the lists of entries with pairwise different keys
EntryLists ==
  UNION {{entries \in [1..n -> HashPaths \X HashDigests] :
            \A i, j \in 1..n : entries[i][1] = entries[j][1] => i = j}
         : n \in 0..Cardinality(HashPaths)}

\* the same entries in another insertion order
Reorderings(entries) ==
  LET n == Len(entries)
      perms == {f \in [1..n -> 1..n] : \A i, j \in 1..n : f[i] = f[j] => i = j}
  IN  {[i \in 1..n |-> entries[f[i]]] : f \in perms}

FolderHashCall ==
  /\ procs.pc = "called"
  /\ procs' = [procs EXCEPT !.pc = "returned",
                            !.digest = calculateFolderHashEntries(procs.fileHashes)]
  /\ UNCHANGED <<files, gitignore, indexFile, last, track>>

InitHash ==
  /\ files = [id \in SourceFiles |-> Absent]
  /\ gitignore = Absent
  /\ indexFile = Absent
  /\ last = EnvLast
  /\ track = NoTrack
  /\ procs \in {[pc |-> "called", fileHashes |-> entries, digest |-> Undefined] :
                  entries \in EntryLists}

NextHash == FolderHashCall

SpecHash == InitHash /\ [][NextHash]_vars

----------------------------------------------------------------------------
(* Specification of the sort of the file list as a function of the order in  *)
(* which the directory entries were enumerated                               *)

NameUnderscore == <<"a", "_", "b", ".", "t", "s">>

\* files.sort((a, b) => a.localeCompare(b)): a stable sort, paths that
\* compare 0 keep the order in which the scan pushed them
RECURSIVE sortFiles(_)
sortFiles(list) ==
  IF list = <<>> THEN <<>>
  ELSE LET n == Len(list)
           front == sortFiles(SubSeq(list, 1, n - 1))
           k == Cardinality({i \in 1..Len(front) :
                               localeCompare(front[i], list[n]) <= 0})
       IN  SubSeq(front, 1, k) \o <<list[n]>> \o SubSeq(front, k + 1, Len(front))

\* the paths a scan can find: two ordinary ones, and two spellings of one
\* accented name that are canonically equivalent
ScanPaths == HashPaths \cup {NameUnderscore}

\* the orders in which a scan can push the paths it finds: every list of
\* pairwise different paths
Enumerations ==
  UNION {{list \in [1..n -> ScanPaths] :
            \A i, j \in 1..n : list[i] = list[j] => i = j}
         : n \in 0..Cardinality(ScanPaths)}

\* getFiles, line 90: the return of the sorted list
GetFilesReturn ==
  /\ procs.pc = "scanned"
  /\ procs' = [procs EXCEPT !.pc = "returned", !.sorted = sortFiles(procs.pushed)]
  /\ UNCHANGED <<files, gitignore, indexFile, last, track>>

InitSort ==
  /\ files = [id \in SourceFiles |-> Absent]
  /\ gitignore = Absent
  /\ indexFile = Absent
  /\ last = EnvLast
  /\ track = NoTrack
  /\ procs \in {[pc |-> "scanned", pushed |-> list, sorted |-> <<>>] :
                  list \in Enumerations}

NextSort == GetFilesReturn

SpecSort == InitSort /\ [][NextSort]_vars

----------------------------------------------------------------------------
(* Specification of two index states that agree on the entry of one folder   *)
(* and differ under the other keys                                           *)

\* what update and changes return for the folder in the current state
UpdateReturn(result) ==
  [updated |-> result.updated, fileCount |-> result.fileCount,
   changedFiles |-> result.changedFiles]
ChangesReturn(result) ==
  [fileCount |-> result.fileCount, folderHash |-> result.folderHash,
   changedFiles |-> result.changedFiles]

\* an entry as an earlier commit of a folder without files has left it
EmptyEntry == [h |-> calculateFolderHashEntries(<<>>), f |-> <<>>]

\* the contents of the index file that keep every entry but the one under
\* key, which is dropped or replaced by the entry of a folder without files
OtherContents(key) ==
  LET folders == StoredFolders
  IN  {Stringify([folders |-> [k \in DOMAIN folders \ {key} |-> folders[k]]]),
       Stringify(setFolder([folders |-> folders], key, EmptyEntry))}

NoPair == [pc |-> "none", folder |-> RootDir, extensions |-> <<>>,
           update |-> <<>>, changes |-> <<>>, files |-> <<>>, index |-> Absent]

\* the entries under the keys other than that of folder are rewritten; procs
\* keeps what update and changes of folder return before the rewrite
RewriteStep(folder, extensions, content, update, changes) ==
  /\ procs.pc = "none"
  /\ indexFile # Absent
  /\ content # indexFile
  /\ indexFile' = content
  /\ procs' = [pc |-> "rewritten", folder |-> folder, extensions |-> extensions,
               update |-> update, changes |-> changes,
               files |-> files, index |-> content]
  /\ last' = EnvLast
  /\ track' = NoTrack
  /\ UNCHANGED <<files, gitignore>>

RewriteOtherEntries(folder, other, extensions) ==
  \E content \in OtherContents(folderKeyOf(other)) :
    RewriteStep(folder, extensions, content,
                UpdateReturn(updateCodemap(folder, extensions, <<>>)),
                ChangesReturn(getChanges(folder, extensions, <<>>)))

InitPair ==
  /\ files = [id \in SourceFiles |-> Absent]
  /\ gitignore = Absent
  /\ indexFile = Absent
  /\ last = EnvLast
  /\ track = NoTrack
  /\ procs = NoPair

NextPair ==
  \/ \E folder \in Folders, extensions \in JsonExtLists :
       Update(folder, extensions, <<>>)
  \/ \E folder \in Folders, extensions \in JsonExtLists :
       Changes(folder, extensions, <<>>)
  \/ CreateFile(FileC, SrcText(1))
  \/ DeleteFile(FileC)
  \/ \E folder \in Folders, other \in Folders, extensions \in JsonExtLists :
       other # folder /\ RewriteOtherEntries(folder, other, extensions)

SpecPair == InitPair /\ [][NextPair]_vars

----------------------------------------------------------------------------
(* Specification of one scan, call by call of the recursive function scan,   *)
(* on trees that hold symbolic links to directories                          *)

\* a faulty variant of entersDirectory: a symbolic link to a directory is
\* taken for a directory, as statSync would report it
entersDirectoryFollowing(dir, entry) ==
  \/ entry.kind = "dir"
  \/ /\ entry.kind = "symlink"
     /\ Len(FileState(Append(dir, entry.name))) > 1

\* entry.isDirectory() of a Dirent: false for a symbolic link
entersDirectory(dir, entry) == entry.kind = "dir"

\* the directory that the entry of dir names
DirectoryOf(dir, entry) ==
  IF entry.kind = "dir" THEN Append(dir, entry.name)
  ELSE FileState(Append(dir, entry.name))[2]

ScanExtensions == <<ExtTs>>

\* one call scan(dir): the entries of dir are read, the matching files are
\* pushed and a call is made for every directory that is entered
ScanVisit(call) ==
  LET relPathOf(entry) ==
        IF call.base # <<>> THEN join(call.base, entry.name) ELSE entry.name
      kept == {entry \in readdirSync(call.dir) :
                 ~shouldIgnore(relPathOf(entry), <<>>)}
      entered == {entry \in kept : entersDirectory(call.dir, entry)}
      matched == {entry \in kept \ entered :
                    /\ entry.kind = "file"
                    /\ \E i \in 1..Len(ScanExtensions) :
                         ScanExtensions[i] = extOf(entry.name)}
  IN  /\ procs.pc = "scanning"
      /\ call \in procs.calls
      /\ call.depth <= MaxDepth
      /\ procs' = [procs EXCEPT
                     !.calls = (procs.calls \ {call}) \cup
                        {[dir |-> DirectoryOf(call.dir, entry),
                          base |-> relPathOf(entry),
                          depth |-> call.depth + 1] : entry \in entered},
                     !.pushed = procs.pushed \cup
                        {relPathOf(entry) : entry \in matched}]
      /\ UNCHANGED <<files, gitignore, indexFile, last, track>>

\* every call has returned: getFiles sorts the list and returns it
ScanReturn ==
  /\ procs.pc = "scanning"
  /\ procs.calls = {}
  /\ procs' = [procs EXCEPT !.pc = "done", !.fileList = sortPaths(procs.pushed)]
  /\ UNCHANGED <<files, gitignore, indexFile, last, track>>

\* the first call, scan(folder), of getFiles for the working root
FirstCall == [dir |-> RootDir, base |-> <<>>, depth |-> 0]

InitScan ==
  /\ files \in [SourceFiles \cup {FileLoop, FileLink} -> {Absent, SrcText(1), LinkTo(RootDir), LinkTo(SubDir)}]
  /\ \A id \in SourceFiles : files[id] \in {Absent, SrcText(1)}
  /\ \A id \in {FileLoop, FileLink} : files[id] # SrcText(1)
  /\ gitignore = Absent
  /\ indexFile = Absent
  /\ last = EnvLast
  /\ track = NoTrack
  /\ procs = [pc |-> "scanning", calls |-> {FirstCall}, pushed |-> {},
              fileList |-> <<>>]

NextScan ==
  \/ \E call \in procs.calls : ScanVisit(call)
  \/ ScanReturn

SpecScan == InitScan /\ [][NextScan]_vars

\* a scan that can take a step takes one: the process runs until it returns
FairSpecScan == SpecScan /\ WF_vars(NextScan)

----------------------------------------------------------------------------
(* Specification of the text that calculateFolderHash feeds to the hasher,   *)
(* for paths that hold the separators ':' and '|'                            *)

\* the paths of the records: two ordinary names, and the name that reads as
\* the first name, a digest and the second name
FeedPaths ==
  {<<"a">>, <<"b">>, <<"a", ":">> \o Hex(md5(SrcText(1))) \o <<"|", "b">>}

\* the Maps with pairwise different keys, as lists of entries
FeedLists ==
  UNION {{entries \in [1..n -> FeedPaths \X HashDigests] :
            \A i, j \in 1..n : entries[i][1] = entries[j][1] => i = j}
         : n \in 0..Cardinality(FeedPaths)}

\* calculateFolderHash, lines 118-126: the entries are sorted and fed
FeedCall ==
  /\ procs.pc = "called"
  /\ procs' = [procs EXCEPT !.pc = "returned",
                            !.fed = concat(sortEntries(procs.fileHashes)),
                            !.digest = calculateFolderHashEntries(procs.fileHashes)]
  /\ UNCHANGED <<files, gitignore, indexFile, last, track>>

InitFeed ==
  /\ files = [id \in SourceFiles |-> Absent]
  /\ gitignore = Absent
  /\ indexFile = Absent
  /\ last = EnvLast
  /\ track = NoTrack
  /\ procs \in {[pc |-> "called", fileHashes |-> entries, fed |-> <<>>,
                 digest |-> Undefined] : entries \in FeedLists}

NextFeed == FeedCall

SpecFeed == InitFeed /\ [][NextFeed]_vars

----------------------------------------------------------------------------
(* Specification of quiescence: after edits of the tree and damage to the    *)
(* index file, updates run one after the other; procs keeps, as history,     *)
(* the folders whose entry an update has written for the tree as it is       *)

NoSync == [files |-> [id \in SourceFiles |-> Undefined], synced |-> {},
           entries |-> <<>>]

\* the folders of the history whose update still stands: the tree is the one
\* the update saw and the entry is the one it left
StillSynced ==
  IF procs.files # files THEN {}
  ELSE {folder \in procs.synced : StoredEntry(folder) = procs.entries[folder]}

\* the update that has just returned is added to the history
NoteUpdate(synced) ==
  /\ last.op = "update"
  /\ last.exit = 0
  /\ procs' = [files |-> files, synced |-> synced,
               entries |-> [folder \in synced |-> StoredEntry(folder)]]
  /\ procs' # procs
  /\ UNCHANGED <<files, gitignore, indexFile, last, track>>

InitQuiet ==
  /\ files = [id \in SourceFiles |-> Absent]
  /\ gitignore = Absent
  /\ indexFile = Absent
  /\ last = EnvLast
  /\ track = NoTrack
  /\ procs = NoSync

NextQuiet ==
  \/ \E folder \in Folders : Update(folder, ConcExtensions, ConcIgnores)
  \/ \E folder \in Folders : Changes(folder, ConcExtensions, ConcIgnores)
  \/ NoteUpdate(StillSynced \cup {last.folder})
  \/ \E id \in SourceFiles : CreateFile(id, SrcText(1))
  \/ \E id \in SourceFiles : DeleteFile(id)
  \/ RevokeRead(FileA)
  \/ DamageIndex(Garbage)

SpecQuiet == InitQuiet /\ [][NextQuiet]_vars

----------------------------------------------------------------------------
(* Specification of diffFiles alone: the fresh Map and the previous entry    *)
(* hold any of the paths, with any digests                                   *)

DiffPaths == {NameA, NameUnderscore}

\* the Maps of path -> digest over the paths
DiffMaps == UNION {[paths -> HashDigests] : paths \in SUBSET DiffPaths}

\* the previous entry: none, or the entry an update has committed for a Map
PreviousEntries ==
  {<<>>} \cup
  {<<newEntry(sortPaths(DOMAIN hashes), hashes, calculateFolderHash(hashes))>> :
     hashes \in DiffMaps}

DiffCall ==
  /\ procs.pc = "called"
  /\ procs' = [procs EXCEPT
                 !.pc = "returned",
                 !.changedFiles = diffFiles(procs.currentHashes, procs.previous)]
  /\ UNCHANGED <<files, gitignore, indexFile, last, track>>

InitDiff ==
  /\ files = [id \in SourceFiles |-> Absent]
  /\ gitignore = Absent
  /\ indexFile = Absent
  /\ last = EnvLast
  /\ track = NoTrack
  /\ procs \in {[pc |-> "called", currentHashes |-> hashes, previous |-> previous,
                 changedFiles |-> <<>>] :
                  hashes \in DiffMaps, previous \in PreviousEntries}

NextDiff == DiffCall

SpecDiff == InitDiff /\ [][NextDiff]_vars

----------------------------------------------------------------------------
(* Specification of invocations that meet a faulty index file: one that is   *)
(* missing, is not JSON, is JSON of another shape, or cannot be written      *)

\* the contents of the index file that do not have the shape of an index
ColdIndexes == {Absent, Garbage, NoFoldersIndex, NoFileListIndex}

\* main, case 'update', while the index file cannot be written: the update
\* is dirty and its writeFileSync throws
UpdateWriteFails(folder, extensions, extraIgnores) ==
  /\ updateCodemap(folder, extensions, extraIgnores).writes # <<>>
  /\ UpdateStep(ArgOf(folder), folder, extensions, extraIgnores, FALSE,
                writeThrows(updateCodemap(folder, extensions, extraIgnores)),
                PreOf(folder, extensions, extraIgnores))

InitFault ==
  /\ files \in [SourceFiles -> {Absent, SrcText(1)}]
  /\ gitignore = Absent
  /\ indexFile = Absent
  /\ last = EnvLast
  /\ track = NoTrack
  /\ procs = NoProcs

NextFault ==
  \/ \E folder \in Folders, extensions \in ExtLists :
       Update(folder, extensions, <<>>)
  \/ \E folder \in Folders, extensions \in ExtLists :
       Changes(folder, extensions, <<>>)
  \/ \E folder \in Folders, extensions \in ExtLists :
       UpdateWriteFails(folder, extensions, <<>>)
  \/ \E id \in SourceFiles : CreateFile(id, SrcText(1))
  \/ \E id \in SourceFiles : DeleteFile(id)
  \/ \E state \in ColdIndexes : DamageIndex(state)

SpecFault == InitFault /\ [][NextFault]_vars

----------------------------------------------------------------------------
(* Specification of the scanner's surroundings: a file whose name contains   *)
(* a built-in pattern, symbolic links, a directory and a .gitignore that     *)
(* cannot be read, negation patterns                                         *)

Directory == <<"dir">>
Negated(pattern) == <<"!">> \o pattern

TreeIgnoreLists == {<<>>, <<Negated(NameSub)>>, <<Negated(NameLayout)>>}
TreeGitignoreTexts ==
  {Text(NameSub \o <<"\n">>), Text(Negated(NameLayout) \o <<"\n">>)}

\* ln -s: a symbolic link is created under the name of file id
LinkFile(id) ==
  /\ files[id] = Absent
  /\ files' = [files EXCEPT ![id] = Symlink]
  /\ track' = NoTrack
  /\ last' = EnvLast
  /\ UNCHANGED <<gitignore, indexFile, procs>>

\* chmod of a directory: it can no longer be listed, or can be listed again
ChmodDir(dir, state) ==
  /\ files[dir] # state
  /\ files' = [files EXCEPT ![dir] = state]
  /\ track' = NoTrack
  /\ last' = EnvLast
  /\ UNCHANGED <<gitignore, indexFile, procs>>

\* chmod 000 .gitignore
RevokeGitignore ==
  /\ gitignore[1] = "text"
  /\ gitignore' = Unreadable
  /\ track' = NoTrack
  /\ last' = EnvLast
  /\ UNCHANGED <<files, indexFile, procs>>

InitTree ==
  /\ files = [id \in SourceFiles \cup {FileLayout, SubDir} |->
                IF id = SubDir THEN Directory ELSE Absent]
  /\ gitignore = Absent
  /\ indexFile = Absent
  /\ last = EnvLast
  /\ track = NoTrack
  /\ procs = NoProcs

NextTree ==
  \/ \E command \in Commands \ {"help"},
        extensions \in ExtLists, extraIgnores \in TreeIgnoreLists :
       Main(command, Dot, extensions, extraIgnores)
  \/ \E id \in {FileC, FileLayout} : CreateFile(id, SrcText(1))
  \/ \E id \in {FileC, FileLayout} : DeleteFile(id)
  \/ LinkFile(FileC)
  \/ \E state \in {Directory, Unreadable} : ChmodDir(SubDir, state)
  \/ \E text \in TreeGitignoreTexts : WriteGitignore(text)
  \/ RemoveGitignore
  \/ RevokeGitignore

SpecTree == InitTree /\ [][NextTree]_vars

----------------------------------------------------------------------------
(* Claims *)

\* C1: an update that follows an update of the same folder with the same
\* extensions and ignore patterns, with no edit of the tree and no other
\* writer in between, returns updated: false with an empty changedFiles and
\* does not write the index.
C1_IdempotentUpdate ==
  (last.op = "update" /\ last.pre = "synced") =>
    (~last.updated /\ last.changedFiles = <<>> /\ ~last.wrote)

\* C2: a changes that follows an update of the same folder with the same
\* arguments, with no edit of the tree in between, reports no changed file
\* (hasChanges: false).
C2_UpdateThenChanges ==
  (last.op = "changes" /\ last.pre = "synced") => last.changedFiles = <<>>

\* C3: a changes invocation leaves the index file as it was, whatever its
\* state (absent, not JSON, or a valid index); it never creates it.
C3_ChangesReadOnly ==
  [][last'.op = "changes" => indexFile' = indexFile]_vars

C3_Witness ==
  /\ last.op = "changes"
  /\ last.changedFiles # <<>>
  /\ indexFile = Absent

\* C4: an update that commits folder key A leaves the entry stored under
\* every other key as it was, with the same digest and the same file list.
C4_Isolation ==
  [][(last'.op = "update" /\ last'.wrote) =>
       \A key \in DOMAIN StoredFolders :
         key # folderKeyOf(track'.folder) =>
           /\ key \in DOMAIN StoredFolders'
           /\ StoredFolders'[key] = StoredFolders[key]]_vars

C4_Witness ==
  /\ last.op = "update"
  /\ last.wrote
  /\ Cardinality(DOMAIN StoredFolders) = 2
  /\ \E key \in DOMAIN StoredFolders : Len(StoredFolders[key].f) > 0

\* C7: an update of a folder whose stored composite digest equals the freshly
\* computed one returns updated: false and leaves the index file unchanged.
C7_CleanUpdateNoWrite ==
  [][(/\ last'.op = "update"
      /\ StoredEntry(track'.folder) # <<>>
      /\ StoredEntry(track'.folder)[1].h =
           FreshHash(track'.folder, track'.extensions, track'.extraIgnores))
     => (~last'.updated /\ ~last'.wrote /\ indexFile' = indexFile)]_vars

C7_Witness ==
  /\ last.op = "update"
  /\ ~last.updated
  /\ ~last.wrote
  /\ StoredEntry(track.folder) # <<>>
  /\ Len(StoredEntry(track.folder)[1].f) > 0

\* C8: an update of a folder that has no stored entry, or whose stored digest
\* differs from the fresh one, returns updated: true and leaves an entry whose
\* digest is the fresh digest and whose file list is the fresh list of
\* (path, digest) records.
C8_DirtyUpdateCommitsFresh ==
  (last.op = "update" /\ last.updated) =>
    /\ StoredEntry(track.folder) # <<>>
    /\ StoredEntry(track.folder)[1].h =
         FreshHash(track.folder, track.extensions, track.extraIgnores)
    /\ StoredEntry(track.folder)[1].f =
         FreshRecords(track.folder, track.extensions, track.extraIgnores)

\* C9: after an update, a change of the content of one tracked file and
\* nothing else makes the next update return updated: true with exactly that
\* path in changedFiles, and a further update with no edit in between
\* returns updated: false.
C9_OneFileModified ==
  /\ (last.op = "update" /\ last.pre = "modified") =>
       (last.updated /\ last.changedFiles = <<last.prePath>>)
  /\ (last.op = "update" /\ last.pre = "synced" /\ last.since = "modified") =>
       ~last.updated

\* C10: after an update, the deletion of one tracked file and nothing else
\* makes the next update return updated: true, report the deleted path and
\* store an entry that no longer lists it.
C10_OneFileDeleted ==
  (last.op = "update" /\ last.pre = "deleted") =>
    /\ last.updated
    /\ \E i \in 1..Len(last.changedFiles) : last.changedFiles[i] = last.prePath
    /\ StoredEntry(track.folder) # <<>>
    /\ \A i \in 1..Len(StoredEntry(track.folder)[1].f) :
         StoredEntry(track.folder)[1].f[i].p # last.prePath

\* C5: when two updates of distinct folders run at the same time, then under
\* every interleaving of their index reads and writes, once both have
\* committed the index holds the fresh entry of both folders.
C5_ConcurrentCommitsKept ==
  \A p, q \in ProcIds :
    (/\ p # q
     /\ procs[p].folder # procs[q].folder
     /\ procs[p].pc = "done" /\ procs[p].op = "update" /\ procs[p].updated
     /\ procs[q].pc = "done" /\ procs[q].op = "update" /\ procs[q].updated)
    => \A r \in {p, q} :
         /\ StoredEntry(procs[r].folder) # <<>>
         /\ StoredEntry(procs[r].folder)[1].h =
              FreshHash(procs[r].folder, ConcExtensions, ConcIgnores)

\* C6: at every point of a commit, also when the writer is killed part-way,
\* the index file holds a complete document, so that no invocation ever loads
\* a partially written index.
C6_AtomicPersist ==
  /\ indexFile[1] # "garbage"
  /\ \A p \in ProcIds : ~procs[p].partial

\* C11: a changes on a folder that has no entry in the index (also when the
\* index file is absent) reports every discovered file in changedFiles and
\* reports hasChanges: true.  The discovered files are those of this run's
\* file set: the scanned files that could be read.
C11_FirstRunChanges ==
  (last.op = "changes" /\ StoredEntry(last.folder) = <<>>) =>
    /\ last.changedFiles =
         sortPaths(DOMAIN FreshHashes(last.folder, last.extensions,
                                      last.extraIgnores))
    /\ last.hasChanges

\* whether path is one of the paths of list
Reports(list, path) == \E i \in 1..Len(list) : list[i] = path

\* C12 as stated: the composite digest of a folder covers only the files
\* directly inside it: after an update of the folder, adding, removing or
\* modifying a matching file inside a sub-folder and nothing else leaves the
\* folder clean for the next update and changes.
C12_DigestCoversDirectFilesOnly ==
  (/\ last.op \in {"update", "changes"}
   /\ last.folder = RootDir
   /\ last.pre \in {"created", "modified", "deleted"}
   /\ last.prePath = PathOf(FileC))
  => (~last.updated /\ last.changedFiles = <<>>)

\* C12 as amended: the composite digest of a folder covers the readable
\* matching files of the folder and of its sub-folders that are not ignored:
\* after an update of the folder, adding, removing or modifying such a file
\* inside a sub-folder makes the next update return updated: true and makes
\* update and changes report its path.
C12_DigestCoversDescendants ==
  (/\ last.op \in {"update", "changes"}
   /\ last.folder = RootDir
   /\ last.extraIgnores = <<>>
   /\ last.pre \in {"created", "modified", "deleted"}
   /\ last.preReadable
   /\ last.prePath = PathOf(FileC))
  => /\ last.op = "update" => last.updated
     /\ Reports(last.changedFiles, last.prePath)

C12_Witness ==
  /\ last.op = "update"
  /\ last.folder = RootDir
  /\ last.extraIgnores = <<>>
  /\ last.pre = "created"
  /\ last.preReadable
  /\ last.prePath = PathOf(FileC)
  /\ last.updated
  /\ files[FileA] \in Contents

\* the paths the last invocation printed: the files of scan, the keys of the
\* files of hash, the changedFiles of changes and update
PrintedPaths ==
  {last.fileList[i] : i \in 1..Len(last.fileList)}
    \cup DOMAIN last.fileHashes
    \cup {last.changedFiles[i] : i \in 1..Len(last.changedFiles)}

\* C13: a path that the ignore predicate of the invocation excludes (built-in
\* default, .gitignore or extra pattern) appears neither in the file list of
\* scan, nor in the file map of hash, nor in the changedFiles of changes or
\* update, whatever the index holds.
C13_IgnoredNeverReported ==
  \A path \in PrintedPaths :
    ~shouldIgnore(path, parseGitignore(last.folder, last.extraIgnores))

\* C14: for the same set of (path, digest) pairs the composite digest is the
\* same for every order in which the entries were inserted into the Map:
\* the digest returned equals the digest of every reordering of the entries.
C14_DigestOrderIndependent ==
  procs.pc = "returned" =>
    \A entries \in Reorderings(procs.fileHashes) :
      calculateFolderHashEntries(entries) = procs.digest

\* the digest of the folder of the last invocation as the index stores it
StoredDigest == StoredEntry(last.folder)[1].h

\* the last invocation follows an update with the same arguments and, after
\* it, a change of the content of one file that the update hashed and that
\* is hashed again now
OneHashedFileModified ==
  /\ last.pre = "modified"
  /\ last.prePath \in DOMAIN FreshHashes(last.folder, last.extensions, last.extraIgnores)

\* C15: with a collision-free digest function, a change of the content of
\* exactly one hashed file, all paths and all other contents unchanged,
\* changes the composite digest of the folder: changes computes a digest that
\* differs from the one the update before the edit left in the index, and
\* update finds the folder dirty.
C15_ContentChangesDigest ==
  /\ (last.op = "changes" /\ OneHashedFileModified) => last.folderHash # StoredDigest
  /\ (last.op = "update" /\ OneHashedFileModified) => last.updated

C15_Witness ==
  /\ last.op = "changes"
  /\ OneHashedFileModified
  /\ last.folder = RootDir
  /\ last.prePath = PathOf(FileC)
  /\ files[FileA] \in Contents
  /\ last.folderHash # StoredDigest

\* C16: starting from an absent index file, every key of the persisted index
\* is the key of a folder for which an update reached the commit step: a key
\* enters the index only in a step that is an update of that folder which
\* writes the index, so that scan, hash and changes add no entry.
C16_KeysComeFromCommits ==
  [][\A key \in DOMAIN StoredFolders' :
       \/ key \in DOMAIN StoredFolders
       \/ /\ last'.op = "update"
          /\ last'.wrote
          /\ key = folderKeyOf(last'.folder)]_vars

C16_Witness ==
  /\ last.op = "changes"
  /\ last.folder = RootDir
  /\ last.changedFiles # <<>>
  /\ DOMAIN StoredFolders = {folderKeyOf(SubDir)}

\* the index file an update of the folder leaves when it starts from an
\* empty index
ColdCommit(folder, extensions, extraIgnores) ==
  writeRootCodemapData(
    setFolder(EmptyRoot, folderKeyOf(folder),
              newEntry(FreshFiles(folder, extensions, extraIgnores),
                       FreshHashes(folder, extensions, extraIgnores),
                       FreshHash(folder, extensions, extraIgnores))))

\* C17: whatever the index file holds that is not an index (it is absent, is
\* not JSON, is JSON without a folders mapping, or has an entry without a
\* file list), changes and update complete without error and behave as on an
\* empty index: every hashed file is reported, and update commits an index
\* that holds the one fresh entry.
C17_MalformedIndexIsColdStart ==
  [][(last'.op \in {"update", "changes"} /\ ~last'.writeFailed
        /\ indexFile \in ColdIndexes) =>
       /\ last'.exit = 0
       /\ last'.changedFiles =
            sortPaths(DOMAIN FreshHashes(last'.folder, last'.extensions, last'.extraIgnores))
       /\ last'.op = "update" =>
            /\ last'.updated
            /\ indexFile' = ColdCommit(last'.folder, last'.extensions, last'.extraIgnores)]_vars

\* C18: an update whose write of the index fails never reports updated: true;
\* the failure reaches the caller as an error with a non-zero exit status.
C18_FailedWriteIsLoud ==
  last.writeFailed => (~last.updated /\ last.exit # 0)

C18_Witness ==
  /\ last.op = "update"
  /\ last.writeFailed
  /\ last.folder = SubDir
  /\ files[FileC] \in Contents
  /\ last.exit = 1
  /\ indexFile = Absent

\* the scanned files of the last invocation that could be read
ReadFiles == DOMAIN FreshHashes(last.folder, last.extensions, last.extraIgnores)

\* the paths the stored entry of the folder of the last invocation lists
EntryPaths ==
  {StoredEntry(last.folder)[1].f[i].p : i \in 1..Len(StoredEntry(last.folder)[1].f)}

\* C19: a file that the scan finds and that cannot be read is left out of
\* the run's file set everywhere: the hash output lists the files that were
\* read and its digest is folded over them alone, fileCount counts them
\* alone, and the entry an update commits lists them alone.
C19_UnreadableExcluded ==
  /\ (last.op = "hash" /\ last.exit = 0) =>
       /\ DOMAIN last.fileHashes = ReadFiles
       /\ last.folderHash =
            calculateFolderHash([path \in ReadFiles |-> last.fileHashes[path]])
  /\ (last.op \in {"update", "changes"} /\ last.exit = 0) =>
       last.fileCount = Cardinality(ReadFiles)
  /\ (last.op = "update" /\ last.wrote) => EntryPaths = ReadFiles

\* the invocation recorded in l was a caller error: its command is not one
\* of the four verbs, or its folder argument is empty or names no folder
CallerError(l) ==
  /\ l.op # "env"
  /\ \/ l.op \notin {"scan", "hash", "update", "changes"}
     \/ l.folderArg = <<>>
     \/ resolve(l.folderArg) \notin Dirs

\* C20: an invocation with an unknown command verb, or with an empty or
\* invalid (nonexistent) folder argument, fails: it ends with a non-zero exit
\* status, an unknown verb gets the usage line, and the index file is left
\* as it was.
C20_CallerErrorsHalt ==
  [][CallerError(last') =>
       /\ last'.exit # 0
       /\ last'.op \notin {"scan", "hash", "update", "changes"} => last'.usage
       /\ indexFile' = indexFile]_vars

\* the file list of the last invocation when only its extra patterns count
FilesWithoutGitignore ==
  getFiles(last.folder, last.extensions, last.extraIgnores)

\* C21: when the .gitignore of the folder is absent, or is there but cannot
\* be read, every command proceeds as if the file contributed no patterns:
\* it ends with status 0 and works on the files that the extra patterns
\* leave.
C21_GitignoreNeverAnError ==
  (/\ last.op \in {"scan", "hash", "update", "changes"}
   /\ GitignoreOf(last.folder) \in {Absent, Unreadable}
   /\ ~scanThrows(last.folder, <<>>, last.extraIgnores)) =>
    /\ last.exit = 0
    /\ last.op = "scan" => last.fileList = FilesWithoutGitignore
    /\ last.op = "hash" =>
         DOMAIN last.fileHashes =
           {FilesWithoutGitignore[i] : i \in 1..Len(FilesWithoutGitignore)}
    /\ last.op \in {"update", "changes"} =>
         last.fileCount = Len(FilesWithoutGitignore)

\* the matching files of the tree that lie in no directory that cannot be
\* listed, for the arguments of the last invocation
ListableFiles ==
  LET ignorer == parseGitignore(last.folder, last.extraIgnores)
      listable(path) == ~readdirSyncThrows(Parent(FileAt(join(PathOf(last.folder), path))))
  IN  SelectSeq(getFiles(last.folder, last.extensions, ignorer), listable)

\* C22: symbolic links, special files and entries that permissions deny are
\* skipped silently: a scan completes with status 0 and returns the matching
\* files of the rest of the tree, without any symbolic link, also when a
\* directory below the folder cannot be listed.
C22_UnlistableSkipped ==
  (last.op = "scan" /\ ~parseGitignoreThrows(last.folder)) =>
    /\ last.exit = 0
    /\ last.fileList = ListableFiles
    /\ \A id \in DOMAIN files :
         files[id] = Symlink => ~Reports(last.fileList, PathOf(id))

\* C23: the built-in exclusions cannot be overridden: whatever the .gitignore
\* and the extra patterns hold, negation patterns included, a relative path
\* that contains a built-in pattern as a substring is ignored and is in no
\* scan result.
C23_DefaultsUnconditional ==
  last.op = "scan" =>
    /\ \A path \in TreePaths :
         matchesDefault(path) =>
           shouldIgnore(path, parseGitignore(last.folder, last.extraIgnores))
    /\ \A i \in 1..Len(last.fileList) : ~matchesDefault(last.fileList[i])

C23_Witness ==
  /\ last.op = "scan"
  /\ last.exit = 0
  /\ files[FileLayout] \in Contents
  /\ files[FileC] \in Contents
  /\ gitignore = Text(Negated(NameLayout) \o <<"\n">>)
  /\ last.extraIgnores = <<Negated(NameLayout)>>
  /\ last.fileList = <<PathOf(FileC)>>

\* the rules in the order the layers are documented: the lines of the
\* folder's .gitignore first, the caller's extra patterns after them
LayeredRules ==
  (IF GitignoreOf(last.folder)[1] = "text"
   THEN split(GitignoreOf(last.folder)[2], "\n") ELSE <<>>)
    \o last.extraIgnores

\* C30: the patterns are layered in the order built-in defaults, .gitignore,
\* extra patterns, a later pattern overriding an earlier one: a scan returns
\* the files that the rules in that order leave, so that an extra negation
\* pattern re-includes a path that a .gitignore pattern excluded.
C30_ExtraPatternsOverride ==
  (last.op = "scan" /\ last.exit = 0) =>
    last.fileList = getFiles(last.folder, last.extensions, LayeredRules)

\* the options with every `--option value` pair rewritten as `--option=value`
RECURSIVE Equalised(_)
Equalised(options) ==
  IF options = <<>> THEN <<>>
  ELSE IF Head(options) \in {OptExtensions, OptExclude} /\ Len(options) > 1
  THEN <<Head(options) \o <<"=">> \o options[2]>> \o Equalised(Tail(Tail(options)))
  ELSE <<Head(options)>> \o Equalised(Tail(options))

\* C24: an option given as in the usage message and the skill document, name
\* and value as separate arguments, takes effect exactly as the form
\* --option=value does: the invocation uses the same extensions and extra
\* patterns, and a scan returns the same files.
C24_SeparateValueTakesEffect ==
  (last.op \in {"scan", "update"} /\ last.exit = 0) =>
    /\ last.extensions = parseExtensions(Equalised(procs.options))
    /\ last.extraIgnores = parseExcludes(Equalised(procs.options))
    /\ last.op = "scan" =>
         last.fileList =
           getFiles(last.folder, parseExtensions(Equalised(procs.options)),
                    parseGitignore(last.folder, parseExcludes(Equalised(procs.options))))

\* the paths of the files the invocation recorded in l listed or read
TouchedPaths(l) ==
  {l.fileList[i] : i \in 1..Len(l.fileList)} \cup DOMAIN l.fileHashes

\* C25: scan and hash never touch the index: an invocation of scan or hash
\* leaves the index file as it was, and the index file is neither among the
\* files scan lists nor among the files hash reads, so that the output is the
\* same for every state of the index.
C25_ScanAndHashLeaveIndexAlone ==
  [][(last'.op \in {"scan", "hash"}) =>
       /\ indexFile' = indexFile
       /\ PathOf(FileIndex) \notin TouchedPaths(last')]_vars

\* the code point of a character: the order of two strings by their UTF-8
\* bytes is their order by code points
CodePoint(ch) ==
  CASE ch = "!" -> 33 [] ch = "*" -> 42 [] ch = "-" -> 45 [] ch = "." -> 46
    [] ch = "/" -> 47 [] ch = ":" -> 58 [] ch = "_" -> 95 [] ch = "|" -> 124
    [] ch = EAcute -> 233 [] ch = CombiningAcute -> 769
    [] OTHER -> 96 + (CHOOSE i \in 1..26 : Alphabet[8 + i] = ch)

\* a precedes b in byte (lexicographic) order
BytesBefore(a, b) ==
  \/ Len(a) < Len(b) /\ SubSeq(b, 1, Len(a)) = a
  \/ \E i \in 1..Len(a) :
       /\ i <= Len(b)
       /\ SubSeq(a, 1, i - 1) = SubSeq(b, 1, i - 1)
       /\ CodePoint(a[i]) < CodePoint(b[i])

\* C26: the file list that getFiles returns, which scan prints and update
\* stores as the f of the entry, is sorted ascending by path in byte order,
\* holds no path twice, and is the same for every order in which the
\* directory entries were enumerated.
C26_CanonicalOrdering ==
  procs.pc = "returned" =>
    /\ \A i, j \in 1..Len(procs.sorted) :
         i < j => BytesBefore(procs.sorted[i], procs.sorted[j])
    /\ \A other \in Reorderings(procs.pushed) : sortFiles(other) = procs.sorted

\* the paths of the f list of a stored entry, and the digest stored for one
ListedPaths(entry) == {entry.f[i].p : i \in 1..Len(entry.f)}
ListedDigest(entry, path) ==
  DigestOf(entry.f[CHOOSE i \in 1..Len(entry.f) : entry.f[i].p = path])

\* the three kinds of changed path between the fresh map of path -> digest
\* and a stored entry
ExpectedChanges(fresh, entry) ==
  {path \in DOMAIN fresh \cap ListedPaths(entry) :
     fresh[path] # ListedDigest(entry, path)}
    \cup (DOMAIN fresh \ ListedPaths(entry))
    \cup (ListedPaths(entry) \ DOMAIN fresh)

\* C27: when a previous entry exists, the changed files that changes returns,
\* and that an update that commits returns, are exactly (a) the freshly
\* hashed paths whose digest differs from the stored one, (b) the paths only
\* in the fresh scan and (c) the paths only in the stored list; a path with
\* the same digest on both sides is not among them.
C27_DiffIsUnionOfThreeKinds ==
  [][(/\ last'.op \in {"update", "changes"}
      /\ last'.exit = 0
      /\ last'.op = "update" => last'.updated
      /\ StoredEntry(last'.folder) # <<>>)
     => {last'.changedFiles[i] : i \in 1..Len(last'.changedFiles)} =
          ExpectedChanges(
            FreshHashes(last'.folder, last'.extensions, last'.extraIgnores),
            StoredEntry(last'.folder)[1])]_vars

\* changes has reported a removed path and a modified one and has left out a
\* path whose digest is the stored one
C27_Witness ==
  /\ last.op = "changes" /\ last.exit = 0
  /\ StoredEntry(last.folder) # <<>>
  /\ \E path \in ListedPaths(StoredEntry(last.folder)[1]) \ ReadFiles :
       Reports(last.changedFiles, path)
  /\ \E path \in ListedPaths(StoredEntry(last.folder)[1]) \cap ReadFiles :
       ~Reports(last.changedFiles, path)

\* the folder of the last invocation has a stored entry whose composite
\* digest is the freshly computed one
DigestsEqual ==
  /\ StoredEntry(last.folder) # <<>>
  /\ StoredEntry(last.folder)[1].h =
       FreshHash(last.folder, last.extensions, last.extraIgnores)

\* C28: whenever the folder has a stored entry whose composite digest equals
\* the freshly computed one, update reports no changed file and changes
\* reports no changed file and hasChanges: false, whatever the stored file
\* list holds.
C28_EqualDigestMeansClean ==
  (last.op \in {"update", "changes"} /\ last.exit = 0 /\ ~last.wrote /\ DigestsEqual)
    => (last.changedFiles = <<>> /\ ~last.hasChanges /\ ~last.updated)

\* C29: an update of a folder that has no stored entry returns updated: true
\* and leaves an entry for the folder in the index, also when the folder
\* holds no matching file.
C29_NoEntryMeansDirty ==
  [][(last'.op = "update" /\ StoredEntry(last'.folder) = <<>>)
     => /\ last'.updated /\ last'.wrote
        /\ folderKeyOf(last'.folder) \in DOMAIN StoredFolders']_vars

\* an update has created the entry of a folder without any matching file:
\* nothing changed, nothing is listed, and the update reported updated: true
C29_Witness ==
  /\ last.op = "update" /\ last.updated
  /\ last.fileCount = 0 /\ last.changedFiles = <<>>
  /\ StoredEntry(last.folder) # <<>>
  /\ StoredEntry(last.folder)[1].f = <<>>

\* C31: for two states of the index that agree on the entry under the key of
\* a folder and differ under other keys, on the same working tree, update
\* and changes of the folder return the same: what they return after the
\* other entries were rewritten is what they returned before.
C31_OtherEntriesDoNotMatter ==
  (procs.pc = "rewritten" /\ procs.files = files /\ procs.index = indexFile) =>
    /\ procs.update =
         UpdateReturn(updateCodemap(procs.folder, procs.extensions, <<>>))
    /\ procs.changes =
         ChangesReturn(getChanges(procs.folder, procs.extensions, <<>>))

\* C32: every scan runs to completion: on every tree, also one whose
\* symbolic links form cycles, the recursive enumeration comes to its end
\* and getFiles returns.
C32_ScanTerminates == <>(procs.pc = "done")

\* a scan has returned on a tree in which sub/loop is a link to the working
\* root, and it has returned what getFiles returns
C32_Witness ==
  /\ procs.pc = "done"
  /\ files[FileLoop] = LinkTo(RootDir)
  /\ files[FileC] # Absent
  /\ procs.fileList = getFiles(RootDir, ScanExtensions, <<>>)

\* the extension of a file name: the text after its last dot with the dot in
\* front, and no extension (the empty list) for a name without a dot
RECURSIVE ExtensionOf(_)
ExtensionOf(name) ==
  IF name = <<>> THEN <<>>
  ELSE IF ExtensionOf(Tail(name)) # <<>> THEN ExtensionOf(Tail(name))
  ELSE IF Head(name) = "." THEN <<name>>
  ELSE <<>>

\* the regular files below the folder of the last invocation, by their path
\* relative to it
RegularFiles ==
  {id \in AllFiles :
     /\ FileState(id) # Absent /\ FileState(id)[1] # "symlink"
     /\ Len(id) > Len(last.folder)
     /\ SubSeq(id, 1, Len(last.folder)) = last.folder}
RelPath(id) == PathOf(SubSeq(id, Len(last.folder) + 1, Len(id)))

\* C33: the list scan returns holds exactly the regular files that are not
\* ignored and whose extension, the text after the last dot of the name with
\* the leading dot, is in the allow-list built from the extension argument;
\* a file whose name has no dot is not in it, whatever the argument.
C33_ExtensionFilter ==
  (last.op = "scan" /\ last.exit = 0) =>
    /\ last.extensions = parseExtensions(procs.options)
    /\ {last.fileList[i] : i \in 1..Len(last.fileList)} =
         {RelPath(id) : id \in
            {f \in RegularFiles :
               /\ ~shouldIgnore(RelPath(f),
                                parseGitignore(last.folder, last.extraIgnores))
               /\ \E i \in 1..Len(last.extensions) :
                    <<last.extensions[i]>> = ExtensionOf(BaseName(f))}}
    /\ \A id \in RegularFiles :
         ExtensionOf(BaseName(id)) = <<>> => ~Reports(last.fileList, RelPath(id))

\* a scan with the extension argument ts has listed a.ts and has left out
\* the file ts, whose name has no dot
C33_Witness ==
  /\ last.op = "scan" /\ last.exit = 0
  /\ procs.options # <<>>
  /\ last.extensions = <<ExtTs>>
  /\ files[FileTs] # Absent
  /\ Reports(last.fileList, NameA)
  /\ ~Reports(last.fileList, PathOf(FileTs))

\* C34: the composite digest is the digest of the `path:digest|` segments of
\* the records in sorted order, one after the other, and no other sorted
\* sequence of records adds up to the same text.
C34_EncodingUnambiguous ==
  procs.pc = "returned" =>
    /\ procs.digest = md5(<<"feed", procs.fed>>)
    /\ \A other \in FeedLists :
         sortEntries(other) # sortEntries(procs.fileHashes)
           => concat(sortEntries(other)) # procs.fed

\* C35: changes and update agree on dirtiness: changes reports hasChanges:
\* true exactly when an update of the same folder with the same arguments on
\* the same state returns updated: true, and then both report the same
\* changedFiles.
C35_ChangesAgreesWithUpdate ==
  (last.op = "changes" /\ last.exit = 0) =>
    /\ last.hasChanges =
         updateCodemap(last.folder, last.extensions, last.extraIgnores).updated
    /\ last.hasChanges =>
         last.changedFiles =
           updateCodemap(last.folder, last.extensions, last.extraIgnores).changedFiles

\* the (path, digest) entries that the file list of a stored entry holds
ListedEntries(entry) ==
  [i \in 1..Len(entry.f) |-> <<entry.f[i].p, DigestOf(entry.f[i])>>]

\* C36: stored entries are self-consistent: in every index that updates have
\* written, every record of every entry carries a digest, and the composite
\* digest of the entry is the one computed from the records of its own list.
C36_EntriesSelfConsistent ==
  \A key \in DOMAIN StoredFolders :
    /\ \A i \in 1..Len(StoredFolders[key].f) :
         DigestOf(StoredFolders[key].f[i]) # Undefined
    /\ StoredFolders[key].h =
         calculateFolderHashEntries(ListedEntries(StoredFolders[key]))

\* the files that a scan of folder with the allow-list extensions lists
TrackedFiles(folder, extensions) ==
  LET fileList == FreshFiles(folder, extensions, <<>>)
  IN  {FileAt(join(PathOf(folder), fileList[i])) : i \in 1..Len(fileList)}

\* C37: committing never dirties a folder by itself: for every allow-list
\* and every folder, the index file is not among the files that a scan of
\* the folder lists and that hash, changes and update fold into the
\* composite digest, so that writing it changes neither.
C37_IndexNeverTracked ==
  \A folder \in Folders, extensions \in ExtLists \cup JsonExtLists :
    FileIndex \notin TrackedFiles(folder, extensions)

\* C38: convergence after quiescence: once the edits of the tree have
\* stopped and an update has run for every folder, one after the other, a
\* following changes on each of these folders reports hasChanges: false and
\* no changed file, whatever happened to the index file before.
C38_ConvergesAfterQuiescence ==
  (last.op = "changes" /\ last.exit = 0 /\ StillSynced = Folders)
    => (~last.hasChanges /\ last.changedFiles = <<>>)

\* C39: changedFiles is canonical: the list diffFiles returns to changes and
\* update is sorted ascending by path string and holds no path twice, and
\* every path of it is a path of the fresh Map or of the stored list.
C39_ChangedFilesCanonical ==
  procs.pc = "returned" =>
    /\ \A i, j \in 1..Len(procs.changedFiles) :
         i < j => BytesBefore(procs.changedFiles[i], procs.changedFiles[j])
    /\ \A i \in 1..Len(procs.changedFiles) :
         \/ procs.changedFiles[i] \in DOMAIN procs.currentHashes
         \/ /\ procs.previous # <<>>
            /\ procs.changedFiles[i] \in ListedPaths(procs.previous[1])

====
